---- MODULE Spec2Model ----
(***************************************************************************)
(* LLM Council: the provider contract of council.py (list_models,          *)
(* generate_response over five vendor variants), the role wrappers, the    *)
(* debate orchestrator DebateCouncil.deliberate and the classic council    *)
(* branch of main.py.                                                      *)
(*                                                                         *)
(* Texts are TLA+ strings; str.lower(), `in` and startswith are computed   *)
(* character by character.  A vendor SDK call is the environment: it       *)
(* returns a text, returns a completion without content (OpenAI SDK:       *)
(* message.content is Optional[str]) or raises.                           *)
(***************************************************************************)
EXTENDS Integers, Sequences, FiniteSets, TLC

VARIABLES
    provider,          \* the LLMProvider instance shared by the role wrappers
    mode,              \* "Debate Council" | "Classic Council" | "Provider"
    pc,                \* position of the running operation
    user_query,        \* the prompt of the deliberation
    chat_history,      \* the history the caller passes in
    models,            \* the caller's model selections
    debate_council,    \* the DebateCouncil with its three role wrappers
    calls,             \* every generate_response call, in the order issued
    proponent_output,  \* DebateCouncil.deliberate: local variable
    critique_output,   \* DebateCouncil.deliberate: local variable
    trace,             \* DebateCouncil.deliberate: local variable
    result,            \* <<>> until deliberate returns, then <<the dict>>
    council_opinions,  \* main.py classic branch: local variable
    final_response,    \* main.py: the text shown to the user
    catalog,           \* what the vendor's model listing holds
    listed,            \* every list_models return value, in call order
    construction,      \* how the provider instance came to be, and from what
    messages,          \* st.session_state.messages
    ui                 \* the sidebar of main.py as the last script run left it

vars == <<provider, mode, pc, user_query, chat_history, models,
          debate_council, calls,
          proponent_output, critique_output, trace, result,
          council_opinions, final_response, catalog, listed,
          construction, messages, ui>>

-----------------------------------------------------------------------------
(* Bounds of the model *)

\* longest history drawn for a direct generate_response call
MaxHistory == 2
\* list_models calls made on one provider instance
MaxListCalls == 2

(* Program constants *)

\* st.slider("Number of Council Members", min_value=2, max_value=3)
MinMembers == 2
MaxMembers == 3

-----------------------------------------------------------------------------
(* Python values *)

\* Python's None, kept apart from every text (no vendor reply equals it)
None == "<None>"
\* a local variable that is not bound yet
Unbound == "<unbound>"

\* f"{v}": str() of a value
Str(v) == IF v = None THEN "None" ELSE v

Upper == "ABCDEFGHIJKLMNOPQRSTUVWXYZ"
Lower == "abcdefghijklmnopqrstuvwxyz"

CharAt(s, i) == SubSeq(s, i, i)

\* str.lower() of one character
LowerChar(c) ==
    IF \E i \in 1..Len(Upper) : CharAt(Upper, i) = c
    THEN CharAt(Lower, CHOOSE i \in 1..Len(Upper) : CharAt(Upper, i) = c)
    ELSE c

\* str.lower()
RECURSIVE lower(_)
lower(s) ==
    IF s = "" THEN "" ELSE LowerChar(CharAt(s, 1)) \o lower(SubSeq(s, 2, Len(s)))

\* `phrase in s`: substring test
In(phrase, s) ==
    \E i \in 1..(Len(s) - Len(phrase) + 1) : SubSeq(s, i, i + Len(phrase) - 1) = phrase

\* s.startswith(prefix)
startswith(s, prefix) ==
    /\ Len(prefix) <= Len(s)
    /\ SubSeq(s, 1, Len(prefix)) = prefix

\* {'role': role, 'content': content}
Msg(role, content) == [role |-> role, content |-> content]

-----------------------------------------------------------------------------
(* Provider instances *)

OllamaProvider(optimize_speed) ==
    [cls |-> "OllamaProvider", optimize_speed |-> optimize_speed]

OpenAIProvider(api_key) ==
    [cls |-> "OpenAIProvider", client |-> [sdk |-> "openai", api_key |-> api_key]]

AnthropicProvider(api_key) ==
    [cls |-> "AnthropicProvider", client |-> [sdk |-> "anthropic", api_key |-> api_key]]

GoogleProvider(api_key) ==
    [cls |-> "GoogleProvider", configured |-> [api_key |-> api_key]]

OpenRouterProvider(api_key) ==
    [cls |-> "OpenRouterProvider",
     client |-> [sdk |-> "openai", base_url |-> "https://openrouter.ai/api/v1",
                 api_key |-> api_key]]

\* OpenRouterProvider(OpenAIProvider) inherits generate_response
IsOpenAI(p) == p.cls \in {"OpenAIProvider", "OpenRouterProvider"}

ApiKeys == {"sk-key"}

ProviderInstances ==
    {OllamaProvider(o) : o \in BOOLEAN}
    \cup {OpenAIProvider(k) : k \in ApiKeys}
    \cup {AnthropicProvider(k) : k \in ApiKeys}
    \cup {GoogleProvider(k) : k \in ApiKeys}
    \cup {OpenRouterProvider(k) : k \in ApiKeys}

\* the instance is handed in ready-made
Given == [via |-> "given"]

\* no page is shown: the core is used on its own
NoUI == [page |-> "none"]

-----------------------------------------------------------------------------
(* generate_response *)

\* options of ollama.chat
OllamaOptions(optimize_speed) ==
    IF optimize_speed
    THEN [num_ctx |-> 2048, num_predict |-> 512, temperature |-> "0.7",
          top_p |-> "0.9", top_k |-> 40]
    ELSE <<>>

\* for msg in history: if msg['role'] in ['user', 'assistant']: append
RECURSIVE clean_history(_)
clean_history(history) ==
    IF history = <<>> THEN <<>>
    ELSE (IF Head(history).role \in {"user", "assistant"}
          THEN <<Head(history)>> ELSE <<>>) \o clean_history(Tail(history))

\* Gemini chat history: role "user" stays, any other role becomes "model"
GeminiHistory(history) ==
    [i \in 1..Len(history) |->
        [role |-> IF history[i].role = "user" THEN "user" ELSE "model",
         parts |-> <<history[i].content>>]]

\* [system] + history + [user prompt] of the Ollama and OpenAI variants
FlatMessages(prompt, system_prompt, history) ==
    <<Msg("system", system_prompt)>> \o history \o <<Msg("user", prompt)>>

\* The request a variant hands to its vendor SDK.
VendorRequest(p, model, prompt, system_prompt, history) ==
    CASE p.cls = "OllamaProvider" ->
            [api |-> "ollama.chat", model |-> model,
             messages |-> FlatMessages(prompt, system_prompt, history),
             options |-> OllamaOptions(p.optimize_speed)]
      [] IsOpenAI(p) ->
            [api |-> "chat.completions.create", model |-> model,
             messages |-> FlatMessages(prompt, system_prompt, history)]
      [] p.cls = "AnthropicProvider" ->
            [api |-> "messages.create", model |-> model, max_tokens |-> 1024,
             system |-> system_prompt,
             messages |-> clean_history(history) \o <<Msg("user", prompt)>>]
      [] p.cls = "GoogleProvider" ->
            [api |-> "start_chat.send_message", model |-> model,
             system_instruction |-> system_prompt,
             history |-> GeminiHistory(history),
             message |-> prompt]

\* the tag of the f-string in each variant's except branch
ErrorTag(p) ==
    CASE p.cls = "OllamaProvider" -> "Ollama Error: "
      [] IsOpenAI(p) -> "OpenAI Error: "
      [] p.cls = "AnthropicProvider" -> "Anthropic Error: "
      [] p.cls = "GoogleProvider" -> "Gemini Error: "

\* mutant: the except branch returns nothing
GenerateReturn_Swallowed(p, outcome) ==
    IF outcome.kind = "raise" THEN None ELSE outcome.text

\* What generate_response returns for an outcome of the vendor call:
\* the content of the reply, or the tagged text of the exception.
GenerateReturn(p, outcome) ==
    IF outcome.kind = "raise" THEN ErrorTag(p) \o outcome.text ELSE outcome.text

\* str(e) of the exceptions a vendor call raises
ExceptionTexts == {"connection refused"}

\* the reply texts enumerated: under the page of main.py one per kind of
\* reply, so that whole sessions stay within reach
PageReplies ==
    { "Paris.", "No critical flaws found.", "The capital is wrong.",
      "Paris, France.", "Yes.", "Yes, on balance." }

Enumerated(replies) == IF ui = NoUI THEN replies ELSE replies \cap PageReplies

\* What a vendor call can do: reply with a text, raise, or (OpenAI SDK)
\* reply with a completion whose message.content is None.
VendorOutcomes(p, replies) ==
    [kind : {"ok"}, text : Enumerated(replies)]
    \cup [kind : {"raise"}, text : ExceptionTexts]
    \cup (IF IsOpenAI(p) THEN [kind : {"null"}, text : {None}] ELSE {})

\* generate_response(model, prompt, system_prompt, history) is entered on
\* provider p by the wrapper `who`: the request goes to the vendor
\* (`args`: the texts the wrapper's method was given, for the record)
Call(p, who, args, model, prompt, system_prompt, history) ==
    [who |-> who, args |-> args, provider |-> p, model |-> model, prompt |-> prompt,
     system_prompt |-> system_prompt, history |-> history,
     request |-> VendorRequest(p, model, prompt, system_prompt, history),
     outcome |-> "pending", value |-> Unbound]

\* the call in flight (the last one issued) returns
Returned(outcome) ==
    [calls EXCEPT ![Len(calls)].outcome = outcome.kind,
                  ![Len(calls)].value =
                      GenerateReturn(calls[Len(calls)].provider, outcome)]

-----------------------------------------------------------------------------
(* list_models *)

\* the characters of model identifiers, in code-point order
Ascii ==
    " !#$%&'()*+,-./0123456789:;<=>?@ABCDEFGHIJKLMNOPQRSTUVWXYZ[]^_abcdefghijklmnopqrstuvwxyz{|}~"

ord(c) == CHOOSE i \in 1..Len(Ascii) : CharAt(Ascii, i) = c

\* a < b on str: by code point, a proper prefix first
RECURSIVE StrLess(_, _)
StrLess(a, b) ==
    IF b = "" THEN FALSE
    ELSE IF a = "" THEN TRUE
    ELSE IF CharAt(a, 1) = CharAt(b, 1)
         THEN StrLess(SubSeq(a, 2, Len(a)), SubSeq(b, 2, Len(b)))
         ELSE ord(CharAt(a, 1)) < ord(CharAt(b, 1))

\* x goes before the first element greater than it
RECURSIVE Insert(_, _)
Insert(x, seq) ==
    IF seq = <<>> THEN <<x>>
    ELSE IF StrLess(x, Head(seq)) THEN <<x>> \o seq
    ELSE <<Head(seq)>> \o Insert(x, Tail(seq))

\* sorted(seq)
RECURSIVE sorted(_)
sorted(seq) ==
    IF seq = <<>> THEN <<>>
    ELSE Insert(seq[Len(seq)], sorted(SubSeq(seq, 1, Len(seq) - 1)))

\* m.get('model', m.get('name')) on a dict entry of ollama.list()
OllamaEntryName(m) ==
    IF "model" \in DOMAIN m THEN m.model
    ELSE IF "name" \in DOMAIN m THEN m.name
    ELSE None

\* OllamaProvider.list_models on what ollama.list() returned
OllamaModels(models_info) ==
    IF models_info.shape = "object"
    THEN [i \in 1..Len(models_info.models) |-> models_info.models[i].model]
    ELSE IF models_info.shape = "dict"
    THEN [i \in 1..Len(models_info.models) |-> OllamaEntryName(models_info.models[i])]
    ELSE <<>>

\* [m.name for m in ... if 'generateContent' in m.supported_generation_methods]
RECURSIVE GeminiModels(_)
GeminiModels(ms) ==
    IF ms = <<>> THEN <<>>
    ELSE (IF "generateContent" \in Head(ms).supported_generation_methods
          THEN <<Head(ms).name>> ELSE <<>>) \o GeminiModels(Tail(ms))

OpenAIModelList == <<"gpt-4o", "gpt-4-turbo", "gpt-3.5-turbo">>

AnthropicModelList ==
    <<"claude-3-5-sonnet-20240620", "claude-3-opus-20240229",
      "claude-3-sonnet-20240229", "claude-3-haiku-20240307">>

\* OpenRouterProvider.list_models: the except branch
OpenRouterFallback ==
    <<"openai/gpt-4o", "anthropic/claude-3.5-sonnet", "google/gemini-pro-1.5">>

\* OpenRouterProvider.list_models
OpenRouterModels(outcome) ==
    IF outcome.kind = "raise" THEN OpenRouterFallback
    ELSE sorted([i \in 1..Len(outcome.listing.data) |-> outcome.listing.data[i].id])

\* OllamaProvider.list_models
OllamaListModels(outcome) ==
    IF outcome.kind = "raise" THEN <<"Error: " \o outcome.text>>
    ELSE OllamaModels(outcome.listing)

\* mutant: the except branch returns the bare exception text
GoogleListModels_NoMarker(outcome) ==
    IF outcome.kind = "raise" THEN <<outcome.text>>
    ELSE GeminiModels(outcome.listing)

\* GoogleProvider.list_models
GoogleListModels(outcome) ==
    IF outcome.kind = "raise"
    THEN <<"Error fetching Gemini models: " \o outcome.text>>
    ELSE GeminiModels(outcome.listing)

\* list_models with the Gemini listing kept from the first call: a generator,
\* which the first call has consumed
list_models_ListingConsumed(p, outcome) ==
    CASE p.cls = "OllamaProvider" -> OllamaListModels(outcome)
      [] p.cls = "OpenAIProvider" -> OpenAIModelList
      [] p.cls = "AnthropicProvider" -> AnthropicModelList
      [] p.cls = "GoogleProvider" ->
            IF listed # <<>> /\ outcome.kind = "ok" THEN <<>>
            ELSE GoogleListModels(outcome)
      [] p.cls = "OpenRouterProvider" -> OpenRouterModels(outcome)

\* What list_models returns for an outcome of the vendor's listing call
\* (the OpenAI and Anthropic variants make no call).
list_models(p, outcome) ==
    CASE p.cls = "OllamaProvider" -> OllamaListModels(outcome)
      [] p.cls = "OpenAIProvider" -> OpenAIModelList
      [] p.cls = "AnthropicProvider" -> AnthropicModelList
      [] p.cls = "GoogleProvider" -> GoogleListModels(outcome)
      [] p.cls = "OpenRouterProvider" -> OpenRouterModels(outcome)

\* the variants whose list_models asks the vendor
ListsFromVendor(p) ==
    p.cls \in {"OllamaProvider", "GoogleProvider", "OpenRouterProvider"}

\* What the vendor's listing call can do: answer with the catalog, or raise.
ListingOutcomes(p, cat) ==
    IF ListsFromVendor(p)
    THEN {[kind |-> "ok", listing |-> cat]}
         \cup {[kind |-> "raise", text |-> e] : e \in ExceptionTexts}
    ELSE {[kind |-> "none"]}

\* what a vendor's listing can hold, by variant
Catalogs(p) ==
    CASE p.cls = "OllamaProvider" ->
            { [shape |-> "object",
               models |-> <<[model |-> "llama3:8b"], [model |-> "mistral:7b"]>>],
              [shape |-> "dict",
               models |-> <<[model |-> "llama3:8b"], [name |-> "phi3"], [size |-> "4GB"]>>],
              [shape |-> "dict", models |-> <<>>],
              [shape |-> "other"] }
      [] p.cls = "GoogleProvider" ->
            { << [name |-> "models/gemini-1.5-flash",
                  supported_generation_methods |-> {"generateContent", "countTokens"}],
                 [name |-> "models/embedding-001",
                  supported_generation_methods |-> {"embedContent"}],
                 [name |-> "models/gemini-1.5-pro",
                  supported_generation_methods |-> {"generateContent"}] >>,
              << >> }
      [] p.cls = "OpenRouterProvider" ->
            { [data |-> <<[id |-> "openai/gpt-4o"], [id |-> "anthropic/claude-3-haiku"],
                          [id |-> "openai/gpt-4"]>>],
              [data |-> <<[id |-> "Error-prone/model"], [id |-> "a/b"]>>],
              [data |-> <<>>] }
      [] OTHER -> {<<>>}

-----------------------------------------------------------------------------
(* Role wrappers *)

CouncilMember(p, model_name, role) ==
    [provider |-> p, model_name |-> model_name, role |-> role]

Chairman(p, model_name) == [provider |-> p, model_name |-> model_name]

Proponent(p, model_name) == [provider |-> p, model_name |-> model_name]

\* an Opponent that makes a provider of its own instead of keeping the one
\* it was given
Opponent_OwnProvider(p, model_name) ==
    [provider |-> OllamaProvider(TRUE), model_name |-> model_name]

Opponent(p, model_name) == [provider |-> p, model_name |-> model_name]

DebateChairman(p, model_name) == [provider |-> p, model_name |-> model_name]

DebateCouncil(proponent, opponent, chairman) ==
    [proponent |-> proponent, opponent |-> opponent, chairman |-> chairman]

\* CouncilMember.get_opinion: the system prompt
MemberSystemPrompt(role) ==
    "You are a member of an LLM Council. Your role is " \o Str(role)
    \o ". Provide a detailed and unique perspective on the user's query."

\* Chairman.synthesize: the system prompt
ChairmanSystemPrompt ==
    "You are the Chairman of an LLM Council. "
    \o "Your goal is to synthesize the best parts of the council members' opinions into a single, high-quality, refined response for the user. "
    \o "Critically evaluate the input opinions, resolve contradictions, and provide the most accurate and helpful answer. "
    \o "Do not strictly mention 'Member 1 said this', but rather synthesize the information seamlessly unless attribution is necessary for clarity."

\* Chairman.synthesize: opinions_text
RECURSIVE opinions_text(_)
opinions_text(opinions) ==
    IF opinions = <<>> THEN ""
    ELSE "\n--- Opinion from " \o Str(Head(opinions).role) \o " ("
         \o Str(Head(opinions).model) \o ") ---\n"
         \o Str(Head(opinions).content) \o "\n" \o opinions_text(Tail(opinions))

\* final_prompt with the opinions taken last to first
ChairmanPrompt_OpinionsReversed(query, opinions) ==
    "User Query: " \o Str(query) \o "\n\nCouncil Opinions:\n"
    \o opinions_text([i \in 1..Len(opinions) |-> opinions[Len(opinions) + 1 - i]])
    \o "\n\nChairman, please provide your synthesized response:"

\* Chairman.synthesize: final_prompt
ChairmanPrompt(query, opinions) ==
    "User Query: " \o Str(query) \o "\n\nCouncil Opinions:\n"
    \o opinions_text(opinions)
    \o "\n\nChairman, please provide your synthesized response:"

\* Proponent.generate_draft: the system prompt
ProponentSystemPrompt ==
    "You are a highly capable AI assistant. "
    \o "Provide a comprehensive, accurate, and well-reasoned response to the user's query. "
    \o "Be thorough and consider multiple perspectives."

\* Opponent.critique: the system prompt
OpponentSystemPrompt ==
    "You are a Senior Logic Auditor. Your job is to find logic gaps, factual errors, "
    \o "missing edge cases, or weak reasoning in the provided response. "
    \o "You are FORBIDDEN from being nice. Be critical and thorough. "
    \o "If the response is accurate and complete with no significant flaws, you MUST say 'No critical flaws found.' "
    \o "Otherwise, provide specific, actionable critique pointing out exactly what is wrong or missing."

\* Opponent.critique: critique_prompt
CritiquePrompt(query, proponent_out) ==
    "Original User Query: " \o Str(query) \o "\n\nResponse to Audit:\n"
    \o Str(proponent_out)
    \o "\n\nPlease audit this response for accuracy, completeness, and logical soundness."

\* DebateChairman.synthesize: the system prompt
DebateChairmanSystemPrompt ==
    "You are the Chairman of an LLM Council. "
    \o "Review the Draft response and the Feedback from the Logic Auditor. "
    \o "Incorporate valid corrections and improvements while ignoring irrelevant nitpicks. "
    \o "Output the final, battle-hardened answer that addresses the user's query accurately and completely."

\* DebateChairman.synthesize: synthesis_prompt
SynthesisPrompt(query, proponent_out, critique_out) ==
    "User Query: " \o Str(query) \o "\n\nDraft Response:\n" \o Str(proponent_out)
    \o "\n\nLogic Auditor Feedback:\n" \o Str(critique_out)
    \o "\n\nChairman, please provide your final synthesized response:"

-----------------------------------------------------------------------------
(* DebateCouncil.deliberate *)

short_circuit_phrases ==
    << "no critical flaws found",
       "the response is accurate",
       "no significant issues",
       "no major flaws",
       "response is correct" >>

\* mutant: the critique is not lower-cased before the test
should_short_circuit_CaseSensitive(critique) ==
    \E k \in 1..Len(short_circuit_phrases) : In(short_circuit_phrases[k], critique)

\* mutant: the containment is tested the wrong way round
should_short_circuit_Reversed(critique) ==
    LET critique_lower == lower(critique)
    IN  \E k \in 1..Len(short_circuit_phrases) :
            In(critique_lower, short_circuit_phrases[k])

\* mutant: the last phrase of the list is never tried
should_short_circuit_LastSkipped(critique) ==
    LET critique_lower == lower(critique)
    IN  \E k \in 1..(Len(short_circuit_phrases) - 1) :
            In(short_circuit_phrases[k], critique_lower)

\* any(phrase in critique_lower for phrase in short_circuit_phrases)
should_short_circuit(critique) ==
    LET critique_lower == lower(critique)
    IN  \E k \in 1..Len(short_circuit_phrases) :
            In(short_circuit_phrases[k], critique_lower)

\* the message of the Short-Circuit step (its leading check mark left out)
ShortCircuitMessage ==
    "Opponent validated the response. Skipping Chairman to save cost/latency."

\* mutant: every step is labelled with the Proponent's model
TraceStep_ProponentModel(step, model, output) ==
    [step |-> step, model |-> debate_council.proponent.model_name, output |-> output]

\* trace.append({'step': ..., 'model': ..., 'output': ...})
TraceStep(step, model, output) ==
    [step |-> step, model |-> model, output |-> output]

\* mutant: the step kind is spelled differently
ShortCircuitStep_Misspelled ==
    [step |-> "Short-circuit", message |-> ShortCircuitMessage]

\* trace.append({'step': 'Short-Circuit', 'message': ...})
ShortCircuitStep == [step |-> "Short-Circuit", message |-> ShortCircuitMessage]

\* the dict deliberate returns
DeliberationResult(final, steps, short_circuit) ==
    [final_response |-> final, trace |-> steps, short_circuit |-> short_circuit]

\* texts a vendor replies with, by the stage that asks
DraftReplies == {"Paris.", "Lyon; the response is accurate."}

CritiqueReplies ==
    { "No critical flaws found.",
      "NO CRITICAL FLAWS FOUND, however the date is wrong.",
      "I think the response is accurate",
      "There are no significant issues here.",
      "No major flaws",
      "Response is correct.",
      "The capital is wrong.",
      "No critical flaw found",
      "" }

SynthesisReplies == {"Paris, France."}

\* Step 1, the call: self.proponent.generate_draft(user_query, chat_history)
Drafting ==
    /\ mode = "Debate Council"
    /\ pc = "Drafting"
    /\ calls' = Append(calls,
            Call(debate_council.proponent.provider, "Proponent", <<user_query>>,
                 debate_council.proponent.model_name, user_query,
                 ProponentSystemPrompt, chat_history))
    /\ pc' = "DraftingCall"
    /\ UNCHANGED <<ui, construction, messages, provider, mode, user_query, chat_history, models,
                   debate_council, proponent_output, critique_output, trace,
                   result, council_opinions, final_response, catalog, listed>>

\* Step 1, the return: proponent_output is bound and traced
Drafted ==
    /\ mode = "Debate Council"
    /\ pc = "DraftingCall"
    /\ \E outcome \in VendorOutcomes(calls[Len(calls)].provider, DraftReplies) :
        LET out == GenerateReturn(calls[Len(calls)].provider, outcome) IN
        /\ calls' = Returned(outcome)
        /\ proponent_output' = out
        /\ trace' = Append(trace,
                TraceStep("Proponent", debate_council.proponent.model_name, out))
    /\ pc' = "Auditing"
    /\ UNCHANGED <<ui, construction, messages, provider, mode, user_query, chat_history, models,
                   debate_council, critique_output, result, council_opinions,
                   final_response, catalog, listed>>

\* Step 2, the call: self.opponent.critique(user_query, proponent_output, chat_history)
Auditing ==
    /\ mode = "Debate Council"
    /\ pc = "Auditing"
    /\ calls' = Append(calls,
            Call(debate_council.opponent.provider, "Opponent",
                 <<user_query, proponent_output>>,
                 debate_council.opponent.model_name,
                 CritiquePrompt(user_query, proponent_output),
                 OpponentSystemPrompt, chat_history))
    /\ pc' = "AuditingCall"
    /\ UNCHANGED <<ui, construction, messages, provider, mode, user_query, chat_history, models,
                   debate_council, proponent_output, critique_output, trace,
                   result, council_opinions, final_response, catalog, listed>>

\* Audited with the trace started afresh instead of appended to
Audited_TraceRestarted ==
    /\ mode = "Debate Council"
    /\ pc = "AuditingCall"
    /\ \E outcome \in VendorOutcomes(calls[Len(calls)].provider, CritiqueReplies) :
        LET out == GenerateReturn(calls[Len(calls)].provider, outcome) IN
        /\ calls' = Returned(outcome)
        /\ critique_output' = out
        /\ trace' = <<TraceStep("Opponent (Logic Auditor)",
                                debate_council.opponent.model_name, out)>>
        /\ pc' = IF out = None THEN "Raised"
                 ELSE IF should_short_circuit(out) THEN "ShortCircuit"
                 ELSE "Synthesizing"
    /\ UNCHANGED <<ui, construction, messages, provider, mode, user_query, chat_history, models,
                   debate_council, proponent_output, result, council_opinions,
                   final_response, catalog, listed>>

\* Step 2, the return, and step 3, the short-circuit check:
\* critique_output.lower() raises AttributeError on None
Audited ==
    /\ mode = "Debate Council"
    /\ pc = "AuditingCall"
    /\ \E outcome \in VendorOutcomes(calls[Len(calls)].provider, CritiqueReplies) :
        LET out == GenerateReturn(calls[Len(calls)].provider, outcome) IN
        /\ calls' = Returned(outcome)
        /\ critique_output' = out
        /\ trace' = Append(trace,
                TraceStep("Opponent (Logic Auditor)",
                          debate_council.opponent.model_name, out))
        /\ pc' = IF out = None THEN "Raised"
                 ELSE IF should_short_circuit(out) THEN "ShortCircuit"
                 ELSE "Synthesizing"
    /\ UNCHANGED <<ui, construction, messages, provider, mode, user_query, chat_history, models,
                   debate_council, proponent_output, result, council_opinions,
                   final_response, catalog, listed>>

\* if should_short_circuit: the Short-Circuit step, and the return
ShortCircuit ==
    /\ mode = "Debate Council"
    /\ pc = "ShortCircuit"
    /\ trace' = Append(trace, ShortCircuitStep)
    /\ result' = <<DeliberationResult(proponent_output, trace', TRUE)>>
    /\ final_response' = proponent_output
    /\ pc' = "Done"
    /\ UNCHANGED <<ui, construction, messages, provider, mode, user_query, chat_history, models,
                   debate_council, calls, proponent_output, critique_output,
                   council_opinions, catalog, listed>>

\* Step 4, the call: self.chairman.synthesize(user_query, proponent_output,
\* critique_output, chat_history)
Synthesizing ==
    /\ mode = "Debate Council"
    /\ pc = "Synthesizing"
    /\ calls' = Append(calls,
            Call(debate_council.chairman.provider, "DebateChairman",
                 <<user_query, proponent_output, critique_output>>,
                 debate_council.chairman.model_name,
                 SynthesisPrompt(user_query, proponent_output, critique_output),
                 DebateChairmanSystemPrompt, chat_history))
    /\ pc' = "SynthesizingCall"
    /\ UNCHANGED <<ui, construction, messages, provider, mode, user_query, chat_history, models,
                   debate_council, proponent_output, critique_output, trace,
                   result, council_opinions, final_response, catalog, listed>>

\* Step 4, the return: the Chairman step, and the return
Synthesized ==
    /\ mode = "Debate Council"
    /\ pc = "SynthesizingCall"
    /\ \E outcome \in VendorOutcomes(calls[Len(calls)].provider, SynthesisReplies) :
        LET out == GenerateReturn(calls[Len(calls)].provider, outcome) IN
        /\ calls' = Returned(outcome)
        /\ trace' = Append(trace,
                TraceStep("Chairman", debate_council.chairman.model_name, out))
        /\ result' = <<DeliberationResult(out, trace', FALSE)>>
        /\ final_response' = out
    /\ pc' = "Done"
    /\ UNCHANGED <<ui, construction, messages, provider, mode, user_query, chat_history, models,
                   debate_council, proponent_output, critique_output,
                   council_opinions, catalog, listed>>

-----------------------------------------------------------------------------
(* The classic council branch of main.py *)

\* mutant: the label counts from 0
role_name_FromZero(i) == "Council Member " \o ToString(i)

\* role_name = f"Council Member {i+1}", i counted from 0
role_name(i) == "Council Member " \o ToString(i + 1)

\* council_opinions.append({"role": ..., "model": ..., "content": ...})
Opinion(role, model, content) ==
    [role |-> role, model |-> model, content |-> content]

OpinionReplies == {"Yes."}

FinalReplies == {"Yes, on balance."}

\* for i, model_name in enumerate(council_members_models), the call:
\* CouncilMember(current_provider, model_name, role=role_name).get_opinion(...)
MemberAsked ==
    /\ mode = "Classic Council"
    /\ pc = "Members"
    /\ LET i == Len(council_opinions)
           member == CouncilMember(provider, models.council_members_models[i + 1],
                                   role_name(i))
       IN  calls' = Append(calls,
                Call(member.provider, member.role, <<user_query>>,
                     member.model_name, user_query,
                     MemberSystemPrompt(member.role), chat_history))
    /\ pc' = "MemberCall"
    /\ UNCHANGED <<ui, construction, messages, provider, mode, user_query, chat_history, models,
                   debate_council, proponent_output, critique_output, trace,
                   result, council_opinions, final_response, catalog, listed>>

\* get_opinion returns: council_opinions.append({role, model, content}),
\* and the loop goes on or ends
MemberSpoke ==
    /\ mode = "Classic Council"
    /\ pc = "MemberCall"
    /\ \E outcome \in VendorOutcomes(calls[Len(calls)].provider, OpinionReplies) :
        LET opinion == GenerateReturn(calls[Len(calls)].provider, outcome)
            i == Len(council_opinions)
        IN
        /\ calls' = Returned(outcome)
        /\ council_opinions' = Append(council_opinions,
                Opinion(role_name(i), models.council_members_models[i + 1],
                        opinion))
    /\ pc' = IF Len(council_opinions') < Len(models.council_members_models)
             THEN "Members" ELSE "Chairman"
    /\ UNCHANGED <<ui, construction, messages, provider, mode, user_query, chat_history, models,
                   debate_council, proponent_output, critique_output, trace,
                   result, final_response, catalog, listed>>

\* Chairman(current_provider, chairman_model).synthesize(prompt,
\* council_opinions, chat_history), the call
ChairmanAsked ==
    /\ mode = "Classic Council"
    /\ pc = "Chairman"
    /\ LET chairman == Chairman(provider, models.chairman_model)
       IN  calls' = Append(calls,
                Call(chairman.provider, "Chairman",
                     <<user_query, council_opinions>>, chairman.model_name,
                     ChairmanPrompt(user_query, council_opinions),
                     ChairmanSystemPrompt, chat_history))
    /\ pc' = "ChairmanCall"
    /\ UNCHANGED <<ui, construction, messages, provider, mode, user_query, chat_history, models,
                   debate_council, proponent_output, critique_output, trace,
                   result, council_opinions, final_response, catalog, listed>>

\* synthesize returns: final_response
ChairmanSynthesized ==
    /\ mode = "Classic Council"
    /\ pc = "ChairmanCall"
    /\ \E outcome \in VendorOutcomes(calls[Len(calls)].provider, FinalReplies) :
        /\ calls' = Returned(outcome)
        /\ final_response' = GenerateReturn(calls[Len(calls)].provider, outcome)
    /\ pc' = "Done"
    /\ UNCHANGED <<ui, construction, messages, provider, mode, user_query, chat_history, models,
                   debate_council, proponent_output, critique_output, trace,
                   result, council_opinions, catalog, listed>>

-----------------------------------------------------------------------------
(* The inputs of a deliberation *)

Queries == {"Capital of France?", "And of Italy?"}

ModelIds == {"m1", "m2"}

Turns ==
    {Msg("user", "Hi"), Msg("assistant", "Hello."), Msg("system", "Be brief.")}

\* every history of at most MaxHistory turns
Histories == UNION {[1..n -> Turns] : n \in 0..MaxHistory}

\* the histories main.py passes: the session's user and assistant messages
\* before the prompt, a user turn and its answer alternating
ChatHistories ==
    {h \in Histories :
        /\ Len(h) % 2 = 0
        /\ \A k \in 1..Len(h) :
              h[k].role = (IF k % 2 = 1 THEN "user" ELSE "assistant")}

DebateModels ==
    [proponent_model : ModelIds, opponent_model : ModelIds,
     chairman_model : ModelIds]

ClassicModels ==
    UNION {[council_members_models : [1..n -> ModelIds], chairman_model : ModelIds]
           : n \in MinMembers..MaxMembers}

Init ==
    /\ provider \in ProviderInstances
    /\ mode \in {"Debate Council", "Classic Council"}
    /\ user_query \in Queries
    /\ chat_history \in ChatHistories
    /\ models \in (IF mode = "Debate Council" THEN DebateModels ELSE ClassicModels)
    /\ debate_council =
          IF mode = "Debate Council"
          THEN DebateCouncil(Proponent(provider, models.proponent_model),
                             Opponent(provider, models.opponent_model),
                             DebateChairman(provider, models.chairman_model))
          ELSE <<>>
    /\ pc = IF mode = "Debate Council" THEN "Drafting" ELSE "Members"
    /\ calls = <<>>
    /\ proponent_output = Unbound
    /\ critique_output = Unbound
    /\ trace = <<>>
    /\ result = <<>>
    /\ council_opinions = <<>>
    /\ final_response = Unbound
    /\ catalog = <<>>
    /\ listed = <<>>
    /\ construction = Given
    /\ messages = <<>>
    /\ ui = NoUI

Next ==
    \/ Drafting
    \/ Drafted
    \/ Auditing
    \/ Audited
    \/ ShortCircuit
    \/ Synthesizing
    \/ Synthesized
    \/ MemberAsked
    \/ MemberSpoke
    \/ ChairmanAsked
    \/ ChairmanSynthesized

Spec == Init /\ [][Next]_vars

-----------------------------------------------------------------------------
(* The provider contract on its own: one generate_response call with any    *)
(* history, and list_models calls, on one provider instance                 *)

SystemPrompts == {"You are terse."}

DirectReplies == {"Rome."}

\* generate_response that filters the caller's history list in place
Generate_HistoryFilteredInPlace ==
    /\ mode = "Provider"
    /\ pc = "Idle"
    /\ calls = <<>>
    /\ \E system_prompt \in SystemPrompts :
        calls' = Append(calls,
            Call(provider, "caller", <<user_query>>, models.model, user_query,
                 system_prompt,
                 chat_history))
    /\ chat_history' = clean_history(chat_history)
    /\ pc' = "GenerateCall"
    /\ UNCHANGED <<ui, construction, messages, provider, mode, user_query, models,
                   debate_council, proponent_output, critique_output, trace,
                   result, council_opinions, final_response, catalog, listed>>

\* generate_response(model, prompt, system_prompt, history) is entered
Generate ==
    /\ mode = "Provider"
    /\ pc = "Idle"
    /\ calls = <<>>
    /\ \E system_prompt \in SystemPrompts :
        calls' = Append(calls,
            Call(provider, "caller", <<user_query>>, models.model, user_query,
                 system_prompt,
                 chat_history))
    /\ pc' = "GenerateCall"
    /\ UNCHANGED <<ui, construction, messages, provider, mode, user_query, chat_history, models,
                   debate_council, proponent_output, critique_output, trace,
                   result, council_opinions, final_response, catalog, listed>>

\* generate_response returns
Generated ==
    /\ mode = "Provider"
    /\ pc = "GenerateCall"
    /\ \E outcome \in VendorOutcomes(provider, DirectReplies) :
        /\ calls' = Returned(outcome)
        /\ final_response' = GenerateReturn(provider, outcome)
    /\ pc' = "Idle"
    /\ UNCHANGED <<ui, construction, messages, provider, mode, user_query, chat_history, models,
                   debate_council, proponent_output, critique_output, trace,
                   result, council_opinions, catalog, listed>>

\* list_models() is called and returns
ListModels ==
    /\ mode = "Provider"
    /\ pc = "Idle"
    /\ Len(listed) < MaxListCalls
    /\ \E outcome \in ListingOutcomes(provider, catalog) :
        listed' = Append(listed,
            [outcome |-> outcome.kind, value |-> list_models(provider, outcome)])
    /\ UNCHANGED <<ui, construction, messages, provider, mode, pc, user_query, chat_history, models,
                   debate_council, calls, proponent_output, critique_output,
                   trace, result, council_opinions, final_response, catalog>>

InitProvider ==
    /\ provider \in ProviderInstances
    /\ mode = "Provider"
    /\ pc = "Idle"
    /\ user_query \in Queries
    /\ chat_history \in Histories
    /\ models \in [model : ModelIds]
    /\ catalog \in Catalogs(provider)
    /\ debate_council = <<>>
    /\ calls = <<>>
    /\ proponent_output = Unbound
    /\ critique_output = Unbound
    /\ trace = <<>>
    /\ result = <<>>
    /\ council_opinions = <<>>
    /\ final_response = Unbound
    /\ listed = <<>>
    /\ construction = Given
    /\ messages = <<>>
    /\ ui = NoUI

NextProvider ==
    \/ Generate
    \/ Generated
    \/ ListModels

SpecProvider == InitProvider /\ [][NextProvider]_vars

-----------------------------------------------------------------------------
(* Properties of the deliberations (specification Spec) *)

Debate == mode = "Debate Council"

Classic == mode = "Classic Council"

\* the calls issued by one wrapper, by position in the call order
CallsBy(who) == {k \in 1..Len(calls) : calls[k].who = who}

\* the k-th call has returned
HasReturned(k) == k <= Len(calls) /\ calls[k].outcome # "pending"

IsText(v) == v \notin {None, Unbound}

\* the closed set of validation phrases
ValidationPhrases ==
    { "no critical flaws found", "the response is accurate",
      "no significant issues", "no major flaws", "response is correct" }

\* the lower-cased text contains a validation phrase
Validates(text) ==
    LET lowered == lower(text)
    IN  \E phrase \in ValidationPhrases : In(phrase, lowered)

\* the Opponent's call has returned a text
Audit == Debate /\ HasReturned(2) /\ IsText(calls[2].value)

\* deliberate has returned
Returned_ == Debate /\ pc = "Done" /\ result # <<>>

\* the steps of a kind in a trace
StepsOf(kind, steps) == {k \in 1..Len(steps) : steps[k].step = kind}

\* C1: when the Opponent's critique matches a validation phrase, the Debate
\* Chairman is not invoked in that deliberation, and the result returned has
\* short_circuit true and the Proponent's draft, unmodified, as final_response.
C1_ShortCircuitSkipsChairman ==
    (Audit /\ Validates(calls[2].value)) =>
        /\ CallsBy("DebateChairman") = {}
        /\ pc \in {"ShortCircuit", "Done"}
        /\ pc = "Done" =>
              /\ result # <<>>
              /\ result[1].short_circuit = TRUE
              /\ result[1].final_response = calls[1].value

C1_Witness ==
    /\ Returned_
    /\ calls[2].value = "No critical flaws found."
    /\ result[1].short_circuit
    /\ result[1].final_response = "Paris."

\* C2: when the critique contains none of the five validation phrases, the
\* Debate Chairman is invoked exactly once, with the original query, the draft
\* and the critique as produced, and the result has the Chairman's output as
\* final_response and short_circuit false.
C2_NoPhraseChairmanOnce ==
    (Audit /\ ~Validates(calls[2].value)) =>
        /\ pc \in {"Synthesizing", "SynthesizingCall", "Done"}
        /\ Cardinality(CallsBy("DebateChairman")) <= 1
        /\ pc \in {"SynthesizingCall", "Done"} =>
              /\ CallsBy("DebateChairman") = {3}
              /\ calls[3].args = <<user_query, calls[1].value, calls[2].value>>
        /\ pc = "Done" =>
              /\ result # <<>>
              /\ HasReturned(3)
              /\ result[1].final_response = calls[3].value
              /\ result[1].short_circuit = FALSE

C2_Witness ==
    /\ Returned_
    /\ calls[2].value = "The capital is wrong."
    /\ CallsBy("DebateChairman") = {3}
    /\ result[1].final_response = "Paris, France."
    /\ ~result[1].short_circuit

\* the critiques of CritiqueReplies that hold a validation phrase, any case
C3_Expected ==
    { "No critical flaws found.",
      "NO CRITICAL FLAWS FOUND, however the date is wrong.",
      "I think the response is accurate",
      "There are no significant issues here.",
      "No major flaws",
      "Response is correct." }

\* the deliberation has taken the short-circuit branch
ShortCircuited ==
    \/ pc = "ShortCircuit"
    \/ pc = "Done" /\ result # <<>> /\ result[1].short_circuit

\* C3: the short-circuit decision is true exactly when the lower-cased
\* critique contains one of the five phrases as a substring; it is decided by
\* the critique alone, whatever the query, the draft and the history.
C3_DecisionIsContainment ==
    Audit =>
        /\ ShortCircuited <=> Validates(calls[2].value)
        /\ calls[2].outcome = "ok" =>
              (ShortCircuited <=> calls[2].value \in C3_Expected)

C3_Witness ==
    /\ Returned_
    /\ calls[2].value = "NO CRITICAL FLAWS FOUND, however the date is wrong."
    /\ result[1].short_circuit
    /\ calls[1].value = "Lyon; the response is accurate."
    /\ chat_history # <<>>

\* C4: a returned result with short_circuit true has a trace with no
\* 'Chairman' step and exactly one 'Short-Circuit' step.
C4_ShortCircuitTrace ==
    (Returned_ /\ result[1].short_circuit) =>
        /\ StepsOf("Chairman", result[1].trace) = {}
        /\ Cardinality(StepsOf("Short-Circuit", result[1].trace)) = 1

C4_Witness ==
    /\ Returned_
    /\ result[1].short_circuit
    /\ Len(result[1].trace) = 3

\* C5: a result that did not short-circuit has the trace [Proponent,
\* Opponent (Logic Auditor), Chairman], in that order and nothing else, each
\* step with the model of the role that ran and the text that role produced.
C5_FullTrace ==
    (Returned_ /\ ~result[1].short_circuit) =>
        /\ Len(calls) = 3
        /\ result[1].trace =
              << [step |-> "Proponent", model |-> models.proponent_model,
                  output |-> calls[1].value],
                 [step |-> "Opponent (Logic Auditor)",
                  model |-> models.opponent_model, output |-> calls[2].value],
                 [step |-> "Chairman", model |-> models.chairman_model,
                  output |-> calls[3].value] >>
        /\ \A k \in 1..3 : calls[k].model = result[1].trace[k].model
        /\ <<calls[1].who, calls[2].who, calls[3].who>>
              = <<"Proponent", "Opponent", "DebateChairman">>

C5_Witness ==
    /\ Returned_
    /\ ~result[1].short_circuit
    /\ models.proponent_model # models.opponent_model
    /\ models.opponent_model # models.chairman_model
    /\ calls[3].outcome = "ok"

\* the role labels of the classic council, by member index
MemberLabels == <<"Council Member 1", "Council Member 2", "Council Member 3">>

\* the number of configured member models
N == Len(models.council_members_models)

\* C6: in the classic council, for N member models (2 or 3) the opinions are
\* produced in member order, the i-th labelled "Council Member i" with the
\* i-th model id; the Chairman is invoked once, after all N member calls have
\* returned, with all N opinions; a finished run has exactly N opinions.
C6_ClassicFanIn ==
    Classic =>
        /\ N \in {2, 3}
        /\ Len(council_opinions) <= N
        /\ \A i \in 1..Len(council_opinions) :
              /\ council_opinions[i].role = MemberLabels[i]
              /\ council_opinions[i].model = models.council_members_models[i]
              /\ calls[i].who = MemberLabels[i]
              /\ calls[i].model = models.council_members_models[i]
              /\ council_opinions[i].content = calls[i].value
        /\ Cardinality(CallsBy("Chairman")) <= 1
        /\ \A k \in CallsBy("Chairman") :
              /\ k = N + 1
              /\ \A i \in 1..N : HasReturned(i)
              /\ Len(council_opinions) = N
              /\ calls[k].args = <<user_query, council_opinions>>
        /\ pc = "Done" =>
              /\ Len(council_opinions) = N
              /\ CallsBy("Chairman") = {N + 1}
              /\ final_response = calls[N + 1].value

C6_Witness ==
    /\ Classic
    /\ pc = "Done"
    /\ N = 3
    /\ Len(council_opinions) = 3
    /\ models.council_members_models = <<"m2", "m1", "m2">>

\* the error tags of the variants
ErrorTags ==
    {"Ollama Error: ", "OpenAI Error: ", "Anthropic Error: ", "Gemini Error: "}

IsErrorText(v) == IsText(v) /\ \E tag \in ErrorTags : startswith(v, tag)

\* the failed calls
Failed == {k \in 1..Len(calls) : calls[k].outcome = "raise"}

\* C7: a generation failure does not abort a deliberation.  A failed call
\* returns an error text, which is used as that participant's output (the
\* member's opinion, the classic final response, the draft, the critique, the
\* debate's final response), and the run goes on to its next step; deliberate
\* raises only on a critique that is None, which no failure produces.
C7_FailureDoesNotAbort ==
    /\ \A k \in Failed :
          /\ IsErrorText(calls[k].value)
          /\ Classic /\ k <= N => council_opinions[k].content = calls[k].value
          /\ Classic /\ k = N + 1 => pc = "Done" /\ final_response = calls[k].value
          /\ Debate /\ k = 1 =>
                /\ proponent_output = calls[k].value
                /\ trace[1].output = calls[k].value
          /\ Debate /\ k = 2 =>
                /\ critique_output = calls[k].value
                /\ trace[2].output = calls[k].value
                /\ pc # "Raised"
          /\ Debate /\ k = 3 =>
                /\ Returned_
                /\ result[1].final_response = calls[k].value
    /\ pc = "Raised" => Debate /\ Len(calls) = 2 /\ calls[2].outcome = "null"
    /\ pc \notin {"Done", "Raised"} => ENABLED Next

C7_Witness ==
    /\ Returned_
    /\ Failed = {1, 2, 3}
    /\ result[1].final_response = "Ollama Error: connection refused"

-----------------------------------------------------------------------------
(* Properties of the provider contract (specification SpecProvider) *)

\* the error tag the contract names for each variant
TagOf(cls) ==
    CASE cls = "OllamaProvider" -> "Ollama Error: "
      [] cls \in {"OpenAIProvider", "OpenRouterProvider"} -> "OpenAI Error: "
      [] cls = "AnthropicProvider" -> "Anthropic Error: "
      [] cls = "GoogleProvider" -> "Gemini Error: "

\* C8: generate_response returns a text that is not None whether the vendor
\* call succeeds or fails, and on failure the text starts with the variant's
\* error tag.
C8_ReturnsText ==
    \A k \in 1..Len(calls) :
        HasReturned(k) =>
            /\ calls[k].value # None
            /\ calls[k].outcome = "raise" =>
                  startswith(calls[k].value, TagOf(calls[k].provider.cls))

\* the turns of role user or assistant, in order
UserAssistantTurns(history) ==
    SelectSeq(history, LAMBDA t : t.role \in {"user", "assistant"})

\* The messages of a vendor request as one sequence: a system prompt given
\* beside the messages comes first, Gemini's role "model" reads "assistant",
\* and the prompt sent to a chat session comes last.
VendorSequence(req) ==
    CASE req.api \in {"ollama.chat", "chat.completions.create"} -> req.messages
      [] req.api = "messages.create" ->
            <<Msg("system", req.system)>> \o req.messages
      [] req.api = "start_chat.send_message" ->
            <<Msg("system", req.system_instruction)>>
            \o [i \in 1..Len(req.history) |->
                   Msg(IF req.history[i].role = "model" THEN "assistant"
                       ELSE req.history[i].role,
                       req.history[i].parts[1])]
            \o <<Msg("user", req.message)>>

\* C9: the message sequence sent to the vendor is the system prompt, then
\* the history's user and assistant turns only, in order and with their
\* roles, then the new user prompt: no system turn of the history is sent.
C9_HistoryFiltered ==
    \A k \in 1..Len(calls) :
        VendorSequence(calls[k].request) =
            <<Msg("system", calls[k].system_prompt)>>
            \o UserAssistantTurns(calls[k].history)
            \o <<Msg("user", calls[k].prompt)>>

\* a list_models return value that reports an error
IsErrorReport(value) == Len(value) = 1 /\ startswith(value[1], "Error")

\* the list_models calls whose listing call to the vendor raised
FailedListings == {k \in 1..Len(listed) : listed[k].outcome = "raise"}

\* C10 as claimed: whenever the underlying listing fails, list_models returns
\* a one-element sequence whose string begins with "Error", or an empty one.
C10_FailureIsMarked ==
    \A k \in FailedListings :
        listed[k].value = <<>> \/ IsErrorReport(listed[k].value)

\* C10, amended: whenever the underlying listing fails, list_models of every
\* variant but OpenRouterProvider returns a one-element sequence whose string
\* begins with "Error", or an empty one; OpenRouterProvider returns its fixed
\* list of three model identifiers.
C10_FailureByVariant ==
    \A k \in FailedListings :
        IF provider.cls = "OpenRouterProvider"
        THEN listed[k].value =
                <<"openai/gpt-4o", "anthropic/claude-3.5-sonnet",
                  "google/gemini-pro-1.5">>
        ELSE listed[k].value = <<>> \/ IsErrorReport(listed[k].value)

C10_Witness ==
    /\ provider.cls = "OpenRouterProvider"
    /\ Len(listed) = 2
    /\ listed[1].outcome = "ok"
    /\ listed[2].outcome = "raise"
    /\ Len(listed[2].value) = 3
    /\ ~startswith(listed[2].value[1], "Error")

-----------------------------------------------------------------------------
(* Provider construction *)

\* Python truthiness of an optional credential
Truthy(v) == v \notin {None, ""}

\* get_provider_implementation returned None, or nothing was constructed
NoInstance == [cls |-> "NoneType"]

GoogleProviderFromCredentials(credentials) ==
    [cls |-> "GoogleProvider", configured |-> [credentials |-> credentials]]

\* openai.OpenAI(api_key=...) and anthropic.Anthropic(api_key=...): with a key
\* the client is built without contacting the vendor; without one the SDK
\* decides, it may take a key from its environment, defer the failure to the
\* first request, or raise
SdkClient(api_key) ==
    IF Truthy(api_key) THEN {"client"} ELSE {"client", "raise"}

Constructed(instance) == [kind |-> "return", value |-> instance]
ConstructorRaised(error) == [kind |-> "raise", value |-> NoInstance, error |-> error]

\* cls(...) called directly: the set of ways __init__ can end
Construct(cls, api_key, credentials) ==
    CASE cls = "OllamaProvider" -> {Constructed(OllamaProvider(TRUE))}
      [] cls = "OpenAIProvider" ->
            {Constructed(OpenAIProvider(api_key)) : c \in SdkClient(api_key) \cap {"client"}}
            \cup {ConstructorRaised("OpenAIError") : c \in SdkClient(api_key) \cap {"raise"}}
      [] cls = "AnthropicProvider" ->
            {Constructed(AnthropicProvider(api_key)) : c \in SdkClient(api_key) \cap {"client"}}
            \cup {ConstructorRaised("AnthropicError") : c \in SdkClient(api_key) \cap {"raise"}}
      [] cls = "OpenRouterProvider" ->
            {Constructed(OpenRouterProvider(api_key)) : c \in SdkClient(api_key) \cap {"client"}}
            \cup {ConstructorRaised("OpenAIError") : c \in SdkClient(api_key) \cap {"raise"}}
      [] cls = "GoogleProvider" ->
            IF Truthy(api_key) THEN {Constructed(GoogleProvider(api_key))}
            ELSE IF Truthy(credentials)
            THEN {Constructed(GoogleProviderFromCredentials(credentials))}
            ELSE {ConstructorRaised("ValueError: Either api_key or credentials must be provided")}

\* the elif chain without the "and api_key" test of the OpenCode branch
get_provider_implementation_NoKeyTest(provider_name, api_key, oauth_credentials) ==
    IF provider_name = "Ollama" THEN Construct("OllamaProvider", None, None)
    ELSE IF provider_name = "OpenCode"
    THEN Construct("OpenAIProvider", api_key, None)
    ELSE IF provider_name = "Claude Code" /\ Truthy(api_key)
    THEN Construct("AnthropicProvider", api_key, None)
    ELSE IF provider_name = "Antigravity"
    THEN IF Truthy(api_key) THEN Construct("GoogleProvider", api_key, None)
         ELSE IF Truthy(oauth_credentials)
         THEN Construct("GoogleProvider", None, oauth_credentials)
         ELSE {Constructed(NoInstance)}
    ELSE IF provider_name = "OpenRouter" /\ Truthy(api_key)
    THEN Construct("OpenRouterProvider", api_key, None)
    ELSE {Constructed(NoInstance)}

\* an Antigravity request with neither credential falls out of the inner
\* if/elif and reaches the final "return None"
get_provider_implementation(provider_name, api_key, oauth_credentials) ==
    IF provider_name = "Ollama" THEN Construct("OllamaProvider", None, None)
    ELSE IF provider_name = "OpenCode" /\ Truthy(api_key)
    THEN Construct("OpenAIProvider", api_key, None)
    ELSE IF provider_name = "Claude Code" /\ Truthy(api_key)
    THEN Construct("AnthropicProvider", api_key, None)
    ELSE IF provider_name = "Antigravity"
    THEN IF Truthy(api_key) THEN Construct("GoogleProvider", api_key, None)
         ELSE IF Truthy(oauth_credentials)
         THEN Construct("GoogleProvider", None, oauth_credentials)
         ELSE {Constructed(NoInstance)}
    ELSE IF provider_name = "OpenRouter" /\ Truthy(api_key)
    THEN Construct("OpenRouterProvider", api_key, None)
    ELSE {Constructed(NoInstance)}

ProviderNames == {"Ollama", "OpenCode", "Claude Code", "Antigravity", "OpenRouter"}
\* names the factory does not know; names are compared exactly
OtherNames == {"Gemini", "ollama"}
ProviderClasses ==
    {"OllamaProvider", "OpenAIProvider", "AnthropicProvider", "GoogleProvider",
     "OpenRouterProvider"}
KeyInputs == {None, "", "sk-key"}
CredentialInputs == {None, "oauth-credentials"}

\* get_provider_implementation(name, api_key, oauth_credentials) is called
GetProviderImplementation ==
    /\ mode = "Provider"
    /\ pc = "Construct"
    /\ construction.via = "factory"
    /\ \E r \in get_provider_implementation(construction.name, construction.api_key,
                                             construction.oauth_credentials) :
        /\ provider' = r.value
        /\ construction' = [construction EXCEPT !.outcome = r.kind]
        /\ pc' = IF r.value # NoInstance THEN "Idle" ELSE "NoProvider"
    /\ UNCHANGED <<ui, messages, mode, user_query, chat_history, models,
                   debate_council, calls, proponent_output, critique_output,
                   trace, result, council_opinions, final_response, catalog,
                   listed>>

\* a provider class is instantiated directly
ConstructDirectly ==
    /\ mode = "Provider"
    /\ pc = "Construct"
    /\ construction.via = "direct"
    /\ \E r \in Construct(construction.name, construction.api_key,
                           construction.oauth_credentials) :
        /\ provider' = r.value
        /\ construction' = [construction EXCEPT !.outcome = r.kind]
        /\ pc' = IF r.kind = "return" THEN "Idle" ELSE "ConfigError"
    /\ UNCHANGED <<ui, messages, mode, user_query, chat_history, models,
                   debate_council, calls, proponent_output, critique_output,
                   trace, result, council_opinions, final_response, catalog,
                   listed>>

InitFactory ==
    /\ construction \in
          [via : {"factory"}, name : ProviderNames \cup OtherNames,
           api_key : KeyInputs, oauth_credentials : CredentialInputs,
           outcome : {"pending"}]
          \cup
          [via : {"direct"}, name : ProviderClasses,
           api_key : KeyInputs, oauth_credentials : CredentialInputs,
           outcome : {"pending"}]
    /\ provider = NoInstance
    /\ mode = "Provider"
    /\ pc = "Construct"
    /\ user_query \in Queries
    /\ chat_history \in ChatHistories
    /\ models \in [model : ModelIds]
    /\ catalog = <<>>
    /\ debate_council = <<>>
    /\ calls = <<>>
    /\ proponent_output = Unbound
    /\ critique_output = Unbound
    /\ trace = <<>>
    /\ result = <<>>
    /\ council_opinions = <<>>
    /\ final_response = Unbound
    /\ listed = <<>>
    /\ messages = <<>>
    /\ ui = NoUI

NextFactory ==
    \/ GetProviderImplementation
    \/ ConstructDirectly
    \/ Generate
    \/ Generated

SpecFactory == InitFactory /\ [][NextFactory]_vars

\* the class each provider name stands for
ClassOf(provider_name) ==
    CASE provider_name = "Ollama" -> "OllamaProvider"
      [] provider_name = "OpenCode" -> "OpenAIProvider"
      [] provider_name = "Claude Code" -> "AnthropicProvider"
      [] provider_name = "Antigravity" -> "GoogleProvider"
      [] provider_name = "OpenRouter" -> "OpenRouterProvider"

ByFactory == construction.via = "factory" /\ construction.outcome # "pending"

\* the three cases in which the factory is to return None
WithoutInstance ==
    \/ construction.name \notin ProviderNames
    \/ /\ construction.name \in {"OpenCode", "Claude Code", "OpenRouter"}
       /\ construction.api_key \in {None, ""}
    \/ /\ construction.name = "Antigravity"
       /\ construction.api_key \in {None, ""}
       /\ construction.oauth_credentials \in {None, ""}

Keyed == {"OpenAIProvider", "AnthropicProvider", "OpenRouterProvider", "GoogleProvider"}

\* a keyed class was instantiated directly with no usable key or credential
DirectWithoutCredential ==
    /\ construction.via = "direct"
    /\ construction.outcome # "pending"
    /\ construction.name \in Keyed
    /\ construction.api_key \in {None, ""}
    /\ construction.name = "GoogleProvider" =>
          construction.oauth_credentials \in {None, ""}

\* C12: constructing OpenAIProvider, AnthropicProvider, OpenRouterProvider or
\* GoogleProvider directly without a usable key or credential raises and
\* yields no instance, so no generate_response call is ever made on one.
C12_NoInstanceWithoutCredential ==
    DirectWithoutCredential =>
        /\ construction.outcome = "raise"
        /\ provider = NoInstance
        /\ calls = <<>>

-----------------------------------------------------------------------------
(* Call counts, stage order and termination (specification Spec) *)

\* deliberate has ended, by returning or by raising
Ended == Debate /\ pc \in {"Done", "Raised"}

\* C13: no provider call is repeated: no wrapper is called twice, a debate
\* that has ended has issued exactly 2 generate_response calls when it
\* short-circuited and exactly 3 otherwise, and a finished classic run with N
\* members has issued exactly N + 1, whichever calls returned an error text.
C13_CallCounts ==
    /\ \A j, k \in 1..Len(calls) : calls[j].who = calls[k].who => j = k
    /\ Ended => Len(calls) = IF ShortCircuited THEN 2 ELSE 3
    /\ (Classic /\ pc = "Done") => Len(calls) = N + 1

\* the stage deliberate is in
Stage ==
    CASE pc \in {"Drafting", "DraftingCall"} -> "Drafting"
      [] pc \in {"Auditing", "AuditingCall"} -> "Auditing"
      [] pc \in {"Synthesizing", "SynthesizingCall"} -> "Synthesizing"
      [] OTHER -> pc

\* Drafting -> Auditing -> (ShortCircuit | Synthesizing) -> Done
StageOrder ==
    { <<"Drafting", "Auditing">>, <<"Auditing", "ShortCircuit">>,
      <<"Auditing", "Synthesizing">>, <<"ShortCircuit", "Done">>,
      <<"Synthesizing", "Done">> }

\* the calls of a debate do not overlap and each is given its predecessors'
\* outputs
StagesDoNotOverlap ==
    Debate =>
        /\ \A k \in 1..Len(calls) : k < Len(calls) => HasReturned(k)
        /\ \A k \in CallsBy("Opponent") :
              /\ k = 2
              /\ calls[k].args = <<user_query, calls[1].value>>
        /\ \A k \in CallsBy("DebateChairman") :
              /\ k = 3
              /\ calls[k].args = <<user_query, calls[1].value, calls[2].value>>

\* C14: deliberate moves Drafting -> Auditing -> (ShortCircuit | Synthesizing)
\* -> Done and makes no other transition; the Opponent is called only after
\* the Proponent's call returned, with exactly the Proponent's output, and the
\* Chairman, when called, only after the Opponent's call returned, with
\* exactly that draft and critique.
C14_StageOrder ==
    /\ [](StagesDoNotOverlap)
    /\ [][Debate => (Stage' = Stage \/ <<Stage, Stage'>> \in StageOrder)]_vars

\* C15: a debate never stops short of Done: it does not raise, and when no
\* step is left it has returned a result with final_response, trace and
\* short_circuit, whatever the provider calls returned.
C15_ReachesDone ==
    Debate =>
        /\ pc # "Raised"
        /\ ~(ENABLED Next) =>
              /\ pc = "Done"
              /\ Len(result) = 1
              /\ DOMAIN result[1] = {"final_response", "trace", "short_circuit"}

-----------------------------------------------------------------------------
(* Repeated listing (specification SpecProvider) *)

\* a list_models call is made and returns
ListModelsStep == Len(listed') = Len(listed) + 1

\* list_models calls that met the same outcome of the vendor's listing
\* returned the same identifiers in the same order
SameListing ==
    \A j, k \in 1..Len(listed) :
        listed[j].outcome = listed[k].outcome => listed[j].value = listed[k].value

-----------------------------------------------------------------------------
(* The trace of a debate (specification Spec) *)

\* the step name under which each wrapper's stage is traced
StepName(who) ==
    CASE who = "Proponent" -> "Proponent"
      [] who = "Opponent" -> "Opponent (Logic Auditor)"
      [] who = "DebateChairman" -> "Chairman"

\* the calls that have returned
ReturnedCalls == {k \in 1..Len(calls) : calls[k].outcome # "pending"}

\* the trace is the stages completed so far, in the order they ran: one step
\* per returned call, then the Short-Circuit step once that branch has run
TraceMirrorsStages ==
    Debate =>
        /\ ReturnedCalls = 1..Cardinality(ReturnedCalls)
        /\ Len(trace) = Cardinality(ReturnedCalls)
                        + (IF pc = "Done" /\ Len(calls) = 2 THEN 1 ELSE 0)
        /\ \A k \in ReturnedCalls :
              /\ trace[k].step = StepName(calls[k].who)
              /\ trace[k].model = calls[k].model
              /\ trace[k].output = calls[k].value
        /\ Len(trace) > Cardinality(ReturnedCalls) =>
              trace[Len(trace)].step = "Short-Circuit"
        /\ \A k \in 1..Len(calls) :
              calls[k].outcome = "pending" => Len(trace) = k - 1
        /\ result # <<>> => result[1].trace = trace

\* C18: during a debate the trace is append-only and mirrors the execution
\* order: it always equals the stages completed so far, a step is appended
\* when its call has returned and before the next call starts, and no step
\* is removed, rewritten or reordered.
C18_TraceAppendOnly ==
    /\ [](TraceMirrorsStages)
    /\ [][Debate =>
            /\ Len(trace') \in {Len(trace), Len(trace) + 1}
            /\ \A k \in 1..Len(trace) : trace'[k] = trace[k]]_vars

C18_Witness ==
    /\ Debate
    /\ pc = "SynthesizingCall"
    /\ Len(trace) = 2
    /\ calls[3].outcome = "pending"
    /\ trace[1].output = "Paris."
    /\ trace[2].output = "The capital is wrong."

-----------------------------------------------------------------------------
(* The Chairman's synthesis prompt (specification Spec) *)

\* the positions at which sub occurs in s
Occurrences(sub, s) ==
    {i \in 1..(Len(s) - Len(sub) + 1) : SubSeq(s, i, i + Len(sub) - 1) = sub}

\* an opinion as the prompt is to show it: role and model id in the header
\* line, the content on the lines after it
OpinionBlock(opinion) ==
    "--- Opinion from " \o opinion.role \o " (" \o opinion.model \o ") ---\n"
    \o Str(opinion.content) \o "\n"

QueryLine(query) == "User Query: " \o query \o "\n"

\* the prompt holds the query line once, then each opinion's block once, in
\* the order of the opinions
HoldsQueryAndOpinions(text, query, opinions) ==
    /\ Occurrences(QueryLine(query), text) = {1}
    /\ \A i \in 1..Len(opinions) :
          Cardinality(Occurrences(OpinionBlock(opinions[i]), text)) = 1
    /\ \A i \in 1..(Len(opinions) - 1) :
          \A a \in Occurrences(OpinionBlock(opinions[i]), text) :
              \A b \in Occurrences(OpinionBlock(opinions[i + 1]), text) :
                  a + Len(OpinionBlock(opinions[i])) <= b
    /\ Cardinality(Occurrences("--- Opinion from ", text)) = Len(opinions)

\* C19: Chairman.synthesize builds one prompt that holds the user query and
\* every opinion it was given, each once, under its role and model id, the
\* content as it is, in input order, and makes exactly one generate_response
\* call, with that prompt and the caller's history.
C19_SynthesisPrompt ==
    Classic =>
        /\ Cardinality(CallsBy("Chairman")) <= 1
        /\ pc \in {"ChairmanCall", "Done"} => CallsBy("Chairman") = {N + 1}
        /\ \A k \in CallsBy("Chairman") :
              LET text == calls[k].prompt
                  opinions == calls[k].args[2]
              IN  /\ calls[k].args[1] = user_query
                  /\ opinions = council_opinions
                  /\ Len(opinions) = N
                  /\ HoldsQueryAndOpinions(text, user_query, opinions)
                  /\ calls[k].history = chat_history
                  /\ calls[k].request.model = models.chairman_model

C19_Witness ==
    /\ Classic
    /\ pc = "Done"
    /\ N = 3
    /\ council_opinions[1].content = "Yes."
    /\ council_opinions[2].content = "Ollama Error: connection refused"
    /\ models.council_members_models[1] # models.council_members_models[2]
    /\ chat_history # <<>>

-----------------------------------------------------------------------------
(* What the Opponent is given (specification Spec) *)

\* the critique prompt, from the query and the draft alone
AuditText(query, draft) ==
    "Original User Query: " \o query \o "\n\nResponse to Audit:\n" \o Str(draft)
    \o "\n\nPlease audit this response for accuracy, completeness, and logical soundness."

\* C20: the Opponent's input is the query and the Proponent's output and
\* nothing else: its prompt is built from the two, no history turn is in the
\* prompt, and what is sent to the vendor for the critique is what would be
\* sent with no history at all, so that the critique depends on (query,
\* draft) only; the Proponent's and the Debate Chairman's calls carry the
\* history.
C20_OpponentSeesNoHistory ==
    Debate =>
        /\ \A k \in CallsBy("Opponent") :
              /\ calls[k].prompt = AuditText(user_query, calls[1].value)
              /\ \A i \in 1..Len(chat_history) :
                    Occurrences(chat_history[i].content, calls[k].prompt) = {}
              /\ calls[k].request =
                    VendorRequest(calls[k].provider, calls[k].model,
                                  AuditText(user_query, calls[1].value),
                                  calls[k].system_prompt, <<>>)
        /\ \A k \in CallsBy("Proponent") \cup CallsBy("DebateChairman") :
              calls[k].history = chat_history

-----------------------------------------------------------------------------
(* A chat session of main.py: turns over st.session_state.messages *)

\* how many prompts a session submits
MaxTurns == 2

\* chat_history_for_models without the final [:-1]
chat_history_for_models_NotStripped(session_messages) ==
    LET shown == SelectSeq(session_messages, LAMBDA m : m.role # "system")
    IN  [i \in 1..Len(shown) |-> Msg(shown[i].role, shown[i].content)]

\* [{"role": m["role"], "content": m["content"]} for m in messages
\*  if m["role"] != "system"][:-1]
chat_history_for_models(session_messages) ==
    LET shown == SelectSeq(session_messages, LAMBDA m : m.role # "system")
        turns == [i \in 1..Len(shown) |-> Msg(shown[i].role, shown[i].content)]
    IN  SubSeq(turns, 1, Len(turns) - 1)

\* the assistant message saved after a classic run; of the details, shown
\* only in the expander, the role labels are kept
ClassicMessage ==
    [role |-> "assistant", content |-> final_response,
     details |-> [i \in 1..Len(council_opinions) |-> council_opinions[i].role]]

\* the assistant message saved after a debate; of the trace, shown only in
\* the expander, the step names are kept
DebateMessage ==
    [role |-> "assistant", content |-> result[1].final_response,
     debate_trace |-> [i \in 1..Len(result[1].trace) |-> result[1].trace[i].step],
     short_circuit |-> result[1].short_circuit]

\* the sidebar's model selection, left as it is for the whole session
SessionModels(council_mode) ==
    IF council_mode = "Debate Council"
    THEN [proponent_model |-> "m1", opponent_model |-> "m2", chairman_model |-> "m1"]
    ELSE [council_members_models |-> <<"m1", "m2">>, chairman_model |-> "m2"]

\* the prompts submitted so far
Submitted == {i \in 1..Len(messages) : messages[i].role = "user"}

\* if prompt := st.chat_input(...): the prompt is appended, the history for
\* the models is prepared, and the branch of council_mode is entered
Submit ==
    /\ pc = "Idle"
    /\ Cardinality(Submitted) < MaxTurns
    /\ \E prompt \in Queries :
        /\ messages' = Append(messages, Msg("user", prompt))
        /\ user_query' = prompt
    /\ chat_history' = chat_history_for_models(messages')
    /\ pc' = IF mode = "Debate Council" THEN "Drafting" ELSE "Members"
    /\ UNCHANGED <<ui, construction, provider, mode, models, debate_council, calls,
                   proponent_output, critique_output, trace, result,
                   council_opinions, final_response, catalog, listed>>

\* st.session_state.messages.append({"role": "assistant", ...}); the script
\* run ends and its locals with it
Save ==
    /\ pc = "Done"
    /\ messages' = Append(messages,
            IF mode = "Debate Council" THEN DebateMessage ELSE ClassicMessage)
    /\ pc' = "Idle"
    /\ user_query' = Unbound
    /\ chat_history' = <<>>
    /\ calls' = <<>>
    /\ proponent_output' = Unbound
    /\ critique_output' = Unbound
    /\ trace' = <<>>
    /\ result' = <<>>
    /\ council_opinions' = <<>>
    /\ final_response' = Unbound
    /\ UNCHANGED <<ui, construction, provider, mode, models, debate_council,
                   catalog, listed>>

\* deliberate raised: the script run ends with the exception shown, no
\* assistant message is appended, the session state stays
Aborted ==
    /\ pc = "Raised"
    /\ pc' = "Idle"
    /\ user_query' = Unbound
    /\ chat_history' = <<>>
    /\ calls' = <<>>
    /\ proponent_output' = Unbound
    /\ critique_output' = Unbound
    /\ trace' = <<>>
    /\ result' = <<>>
    /\ council_opinions' = <<>>
    /\ final_response' = Unbound
    /\ UNCHANGED <<ui, construction, messages, provider, mode, models,
                   debate_council, catalog, listed>>

InitSession ==
    /\ provider \in ProviderInstances
    /\ construction = Given
    /\ mode \in {"Debate Council", "Classic Council"}
    /\ models = SessionModels(mode)
    /\ debate_council =
          IF mode = "Debate Council"
          THEN DebateCouncil(Proponent(provider, models.proponent_model),
                             Opponent(provider, models.opponent_model),
                             DebateChairman(provider, models.chairman_model))
          ELSE <<>>
    /\ messages = <<>>
    /\ ui = NoUI
    /\ pc = "Idle"
    /\ user_query = Unbound
    /\ chat_history = <<>>
    /\ calls = <<>>
    /\ proponent_output = Unbound
    /\ critique_output = Unbound
    /\ trace = <<>>
    /\ result = <<>>
    /\ council_opinions = <<>>
    /\ final_response = Unbound
    /\ catalog = <<>>
    /\ listed = <<>>

NextSession ==
    \/ Submit
    \/ Save
    \/ Aborted
    \/ Next

SpecSession == InitSession /\ [][NextSession]_vars

\* a prompt has been submitted and its script run has not ended
InTurn == pc # "Idle"

\* the session messages recorded before the in-flight prompt was appended
RecordedBefore == SubSeq(messages, 1, Len(messages) - 1)

\* C16: in every turn of a session the in-flight prompt is the last session
\* message and is not part of the history: the history given to every
\* generation call of the turn is the non-system messages recorded before
\* the prompt was appended, the prompt goes to the wrappers as an argument of
\* its own, and the vendor-bound sequence of each call is the system
\* message, that history, and then one user message, the call's prompt.
C16_HistoryExcludesPrompt ==
    InTurn =>
        /\ messages # <<>>
        /\ messages[Len(messages)] = Msg("user", user_query)
        /\ chat_history =
              LET shown == SelectSeq(RecordedBefore, LAMBDA m : m.role # "system")
              IN  [i \in 1..Len(shown) |-> Msg(shown[i].role, shown[i].content)]
        /\ \A k \in 1..Len(calls) :
              LET seq == VendorSequence(calls[k].request) IN
              /\ calls[k].history = chat_history
              /\ calls[k].args[1] = user_query
              /\ Len(seq) = Len(chat_history) + 2
              /\ \A i \in 1..Len(chat_history) : seq[i + 1] = chat_history[i]
              /\ seq[Len(seq)] = Msg("user", calls[k].prompt)

C16_Witness ==
    /\ InTurn
    /\ Len(messages) = 3
    /\ messages[1] = Msg("user", user_query)
    /\ messages[2].role = "assistant"
    /\ Len(calls) = 2
    /\ Len(calls[2].history) = 2
    /\ calls[2].history[1] = Msg("user", user_query)

-----------------------------------------------------------------------------
(* The core on its own: deliberations and direct provider calls *)

InitCore == Init \/ InitProvider

NextCore ==
    \/ Next
    \/ NextProvider

SpecCore == InitCore /\ [][NextCore]_vars

\* the history every call was given is the history the caller still holds
HistoryAsPassed == \A k \in 1..Len(calls) : calls[k].history = chat_history

\* C21: no operation of the core changes the caller's chat history: at every
\* step of a generate_response call of any variant and of a classic or debate
\* deliberation the history keeps its turns, their order, roles and contents,
\* and stays what the calls were given.
C21_HistoryUnchanged ==
    /\ [](HistoryAsPassed)
    /\ [][chat_history' = chat_history]_vars

C21_Witness ==
    /\ mode = "Provider"
    /\ provider.cls = "AnthropicProvider"
    /\ HasReturned(1)
    /\ chat_history = <<Msg("system", "Be brief."), Msg("user", "Hi")>>
    /\ calls[1].request.messages = <<Msg("user", "Hi"), Msg("user", user_query)>>

\* the model each call of a classic run is to use
ClassicModelOf(k) ==
    IF k <= N THEN models.council_members_models[k] ELSE models.chairman_model

\* every wrapper holds the one provider instance and its own model, and
\* every call goes to that instance with that model
WrappersShareProvider ==
    /\ \A k \in 1..Len(calls) : calls[k].provider = provider
    /\ Debate =>
          /\ debate_council.proponent = [provider |-> provider,
                                         model_name |-> models.proponent_model]
          /\ debate_council.opponent = [provider |-> provider,
                                        model_name |-> models.opponent_model]
          /\ debate_council.chairman = [provider |-> provider,
                                        model_name |-> models.chairman_model]
          /\ \A k \in CallsBy("Proponent") : calls[k].model = models.proponent_model
          /\ \A k \in CallsBy("Opponent") : calls[k].model = models.opponent_model
          /\ \A k \in CallsBy("DebateChairman") : calls[k].model = models.chairman_model
    /\ Classic =>
          \A k \in 1..Len(calls) :
              /\ calls[k].model = ClassicModelOf(k)
              /\ calls[k].who = (IF k <= N THEN MemberLabels[k] ELSE "Chairman")

\* C22: all role wrappers of a deliberation hold the same provider instance
\* and none changes it: a wrapper's provider, model_name and role stay as
\* constructed through get_opinion, synthesize, generate_draft, critique and
\* deliberate, and no generate_response call changes the provider instance.
C22_WrappersUnchanged ==
    /\ [](WrappersShareProvider)
    /\ [][/\ provider' = provider
          /\ debate_council' = debate_council
          /\ models' = models]_vars

C22_Witness ==
    /\ Debate
    /\ pc = "Done"
    /\ Len(calls) = 3
    /\ provider.cls = "OpenRouterProvider"
    /\ models.opponent_model # models.proponent_model
    /\ calls[2].provider = calls[3].provider

-----------------------------------------------------------------------------
(* The page of main.py: one script run per event *)

\* how many prompts are submitted on the page
MaxPrompts == 1

\* isinstance(x, str)
IsStr(v) == v # None

\* the checks on available_models with the "Error" test left out
ListingPasses_NonEmptyOnly(available_models) == available_models # <<>>

\* not (not available_models), and not (isinstance(available_models[0], str)
\* and available_models[0].startswith("Error")): neither st.stop() is reached
ListingPasses(available_models) ==
    /\ available_models # <<>>
    /\ ~(IsStr(available_models[1]) /\ startswith(available_models[1], "Error"))

\* no model box has been drawn
NoSelection == [offered |-> FALSE]

\* the council radio, the members slider and the model boxes: "default" is
\* every box left at its index, "last" every box put on the last entry
Councils ==
    { [council_mode |-> "Classic Council", num_members |-> MinMembers, pick |-> "default"],
      [council_mode |-> "Debate Council", num_members |-> MinMembers, pick |-> "last"] }

Smaller(a, b) == IF a < b THEN a ELSE b

\* the values of the model boxes, indices counted from 0 as in main.py
SelectedModels(council, available_models) ==
    LET n == Len(available_models)
        at(index) == available_models[index + 1]
    IN  IF council.council_mode = "Classic Council"
        THEN [chairman_model |-> IF council.pick = "last" THEN at(n - 1) ELSE at(0),
              council_members_models |->
                  [i \in 1..council.num_members |->
                      IF council.pick = "last" THEN at(n - 1) ELSE at(i % n)]]
        ELSE [proponent_model |-> IF council.pick = "last" THEN at(n - 1) ELSE at(0),
              opponent_model |->
                  IF council.pick = "last" THEN at(n - 1) ELSE at(Smaller(1, n - 1)),
              chairman_model |->
                  IF council.pick = "last" THEN at(n - 1) ELSE at(Smaller(2, n - 1))]

\* what the user does to cause a script run; the Google login of Antigravity,
\* which ends in a credential or in st.stop() like the key box, is left to
\* the key box
Events ==
    [type : {"load"}]
    \cup [type : {"select"}, provider_option : ProviderNames]
    \cup [type : {"key"}, api_key : {"", "sk-key"}]
    \cup [type : {"connect"}]
    \cup [type : {"choose"}, council : Councils]
    \cup [type : {"prompt"}, prompt : {"Capital of France?"}]

\* the widget an event needs was drawn by the script run before it
Possible(event) ==
    CASE event.type = "load" -> TRUE
      [] ui.stopped = "not run" -> FALSE
      [] event.type = "select" -> event.provider_option # ui.provider_option
      [] event.type = "key" ->
            ui.provider_option # "Ollama" /\ event.api_key # ui.api_key
      [] event.type = "connect" -> ui.stopped # "credentials"
      [] event.type = "choose" -> ui.stopped = "" /\ event.council # ui.council
      [] event.type = "prompt" ->
            ui.stopped = "" /\ Cardinality(Submitted) < MaxPrompts

\* the widget values the script run reads: a key box is per provider option
\* and comes up empty for a newly selected one
Widgets(event) ==
    [provider_option |->
        IF event.type = "select" THEN event.provider_option ELSE ui.provider_option,
     api_key |->
        IF event.type = "select" THEN ""
        ELSE IF event.type = "key" THEN event.api_key ELSE ui.api_key,
     council |-> IF event.type = "choose" THEN event.council ELSE ui.council]

\* a script run that ended in st.stop() or in an exception
Stopped(why, instance, built, available_models) ==
    [stopped |-> why, instance |-> instance, built |-> built,
     available_models |-> available_models, models |-> NoSelection]

Built(provider_option, api_key) ==
    [via |-> "factory", name |-> provider_option, api_key |-> api_key,
     oauth_credentials |-> None, outcome |-> "return"]

\* the sidebar from the top to the model boxes: the ways one script run can
\* go, given the widget values
Sidebar(widgets, clicked) ==
    LET option == widgets.provider_option
        api_key == IF option = "Ollama" THEN None ELSE widgets.api_key
    IN  IF option # "Ollama" /\ ~Truthy(api_key)
        THEN {Stopped("credentials", provider, construction, <<>>)}
        ELSE UNION {
            IF r.kind = "raise"
            THEN {Stopped("exception", provider, construction, <<>>)}
            ELSE
            LET connected == IF clicked /\ r.value # NoInstance THEN r.value ELSE provider
                built == IF clicked /\ r.value # NoInstance
                         THEN Built(option, api_key) ELSE construction
                instance == IF connected = NoInstance /\ option = "Ollama"
                            THEN OllamaProvider(TRUE) ELSE connected
                made == IF connected = NoInstance /\ option = "Ollama"
                        THEN Built("Ollama", None) ELSE built
            IN  IF instance = NoInstance
                THEN {Stopped("not connected", instance, made, <<>>)}
                ELSE UNION { {
                    LET available_models == list_models(instance, outcome)
                    IN  IF ~ListingPasses(available_models)
                        THEN Stopped(IF available_models = <<>> THEN "no models"
                                     ELSE "listing error",
                                     instance, made, available_models)
                        ELSE [stopped |-> "", instance |-> instance, built |-> made,
                              available_models |-> available_models,
                              models |-> SelectedModels(widgets.council, available_models)]
                    : outcome \in ListingOutcomes(instance, cat) }
                    : cat \in Catalogs(instance) }
            : r \in IF clicked
                    THEN get_provider_implementation(option, api_key, None)
                    ELSE {Constructed(NoInstance)} }

\* one run of main.py from top to bottom, caused by one event; with a prompt
\* it goes on into the council branch
ScriptRun ==
    /\ ui # NoUI
    /\ pc = "Idle"
    /\ \E event \in Events :
        /\ Possible(event)
        /\ \E o \in Sidebar(Widgets(event), event.type = "connect") :
            /\ ui' = [page |-> "main",
                      provider_option |-> Widgets(event).provider_option,
                      api_key |-> Widgets(event).api_key,
                      council |-> Widgets(event).council,
                      available_models |-> o.available_models,
                      stopped |-> o.stopped]
            /\ provider' = o.instance
            /\ construction' = o.built
            /\ models' = o.models
            /\ mode' = IF o.stopped \in {"", "no models", "listing error"}
                       THEN Widgets(event).council.council_mode ELSE mode
            /\ IF event.type = "prompt" /\ o.stopped = ""
               THEN /\ messages' = Append(messages, Msg("user", event.prompt))
                    /\ user_query' = event.prompt
                    /\ chat_history' = chat_history_for_models(messages')
                    /\ debate_council' =
                          IF mode' = "Debate Council"
                          THEN DebateCouncil(
                                   Proponent(o.instance, o.models.proponent_model),
                                   Opponent(o.instance, o.models.opponent_model),
                                   DebateChairman(o.instance, o.models.chairman_model))
                          ELSE <<>>
                    /\ pc' = IF mode' = "Debate Council" THEN "Drafting" ELSE "Members"
               ELSE UNCHANGED <<messages, user_query, chat_history, debate_council, pc>>
    /\ UNCHANGED <<calls, proponent_output, critique_output, trace, result,
                   council_opinions, final_response, catalog, listed>>

InitPage ==
    /\ ui = [page |-> "main", provider_option |-> "Ollama", api_key |-> "",
             council |-> [council_mode |-> "Classic Council",
                          num_members |-> MinMembers, pick |-> "default"],
             available_models |-> <<>>, stopped |-> "not run"]
    /\ provider = NoInstance
    /\ construction = [via |-> "none"]
    /\ mode = "Classic Council"
    /\ models = NoSelection
    /\ debate_council = <<>>
    /\ messages = <<>>
    /\ pc = "Idle"
    /\ user_query = Unbound
    /\ chat_history = <<>>
    /\ calls = <<>>
    /\ proponent_output = Unbound
    /\ critique_output = Unbound
    /\ trace = <<>>
    /\ result = <<>>
    /\ council_opinions = <<>>
    /\ final_response = Unbound
    /\ catalog = <<>>
    /\ listed = <<>>

NextPage ==
    \/ ScriptRun
    \/ Save
    \/ Aborted
    \/ Next

SpecPage == InitPage /\ [][NextPage]_vars

-----------------------------------------------------------------------------
(* Claims about the page *)

\* the entries of a listing
Entries(available_models) ==
    {available_models[i] : i \in 1..Len(available_models)}

\* a listing that is empty or whose first element is an error report
EmptyOrError(available_models) ==
    \/ Len(available_models) = 0
    \/ /\ available_models[1] # None
       /\ Len(available_models[1]) >= 5
       /\ SubSeq(available_models[1], 1, 5) = "Error"

\* the model ids in the model boxes
Offered ==
    IF models = NoSelection THEN {}
    ELSE IF mode = "Debate Council"
    THEN {models.proponent_model, models.opponent_model, models.chairman_model}
    ELSE {models.chairman_model}
         \cup {models.council_members_models[i] :
                  i \in 1..Len(models.council_members_models)}

\* C23: while the listing of the last script run is empty or an error report
\* no model box is drawn and no deliberation runs; every model id in a box
\* and every model id a deliberation passes to the provider is an entry of a
\* listing that is neither
C23_GatedByListing ==
    /\ EmptyOrError(ui.available_models) =>
          /\ models = NoSelection
          /\ pc = "Idle"
          /\ calls = <<>>
    /\ Offered \subseteq Entries(ui.available_models)
    /\ \A k \in 1..Len(calls) : calls[k].model \in Entries(ui.available_models)

\* a debate on an OpenRouter listing has made its three calls
C23_Witness ==
    /\ pc = "Done"
    /\ Debate
    /\ Len(calls) = 3
    /\ ui.provider_option = "OpenRouter"
    /\ provider.cls = "OpenRouterProvider"
    /\ ~EmptyOrError(ui.available_models)
    /\ calls[3].model \in Entries(ui.available_models)

\* the script run got as far as provider_instance.list_models()
ListingCalled == ui.stopped \in {"", "no models", "listing error"}

\* C24: the instance that lists the models and the instance a deliberation
\* calls were constructed for the provider option now selected
C24_InstanceOfSelectedOption ==
    /\ ListingCalled =>
          /\ construction.name = ui.provider_option
          /\ provider.cls = ClassOf(ui.provider_option)
    /\ \A k \in 1..Len(calls) : calls[k].provider.cls = ClassOf(ui.provider_option)

\* the messages strictly alternate, user first
Alternating ==
    \A i \in 1..Len(messages) :
        messages[i].role = IF i % 2 = 1 THEN "user" ELSE "assistant"

\* C25: between turns the session messages alternate user / assistant from a
\* user message on, two for every prompt submitted
C25_MessagesAlternate ==
    pc = "Idle" =>
        /\ Alternating
        /\ Len(messages) = 2 * Cardinality(Submitted)

====
